---- MODULE Spec2Model ----
(***************************************************************************)
(* Model of the Nifty 50 investment agent (src/nifty_agent.py).            *)
(*                                                                         *)
(* Every invocation of run_daily_check() is a process: it constructs a     *)
(* NiftyInvestmentAgent (load_state), runs daily_check() once and exits.   *)
(* The persisted record investment_state.json is the only state shared by  *)
(* processes.  save_state() opens the file with mode 'w' (which truncates  *)
(* it) and then dumps the JSON document, so a save is two steps on the     *)
(* file: the truncation and the completed write.  The record is the JSON   *)
(* document json.dump writes; load_state reads it back with json.load.     *)
(* The dashboard script (src/dashboard_nifty50.py) is a process too: it    *)
(* constructs an agent, may run daily_check, and fills its panel from      *)
(* check_triggers.                                                         *)
(*                                                                         *)
(* Numbers: prices and the VIX are integers; an absent value (None, or the *)
(* NaN that rolling(window=20).mean() yields on fewer than 20 samples) is  *)
(* the empty sequence <<>>, a present value v is <<v>>.                     *)
(***************************************************************************)
EXTENDS Integers, Sequences, FiniteSets, TLC

VARIABLES
    file,         \* investment_state.json: [status, data]
    today,        \* the calendar date datetime.now().date() returns
    pc,           \* position of each process
    state,        \* self.state of each process's agent
    entry,        \* history variable: self.state on entry to daily_check
    market_data,  \* local variable market_data of daily_check
    triggers,     \* local variable triggers of daily_check
    result        \* what daily_check returned, and the notifier's outcome

vars == <<file, today, pc, state, entry, market_data, triggers, result>>

----------------------------------------------------------------------------
(* Bounds of the model *)

MaxHistory == 2
MaxDay == 2
MaxOverlapCounter == 3

(* Program constants *)

TimeThreshold == 20
VixThreshold == 22
DipThresholdTenths == 25

Procs == {"p1", "p2"}

Null == 0
Dates == 1..MaxDay

----------------------------------------------------------------------------
(* Values *)

DefaultState ==
    [last_investment_date |-> Null,
     trading_days_since_last_investment |-> 0,
     investment_history |-> <<>>]

(* json.dump(self.state, f, indent=4): the document written for a state.  *)
(* None becomes null, the ISO date and the trigger texts become strings,   *)
(* the counter a number, the history an array of objects.                  *)
json_dump(st) ==
    [last_investment_date |->
         IF st.last_investment_date = Null
         THEN [type |-> "null", value |-> 0]
         ELSE [type |-> "string", value |-> st.last_investment_date],
     trading_days_since_last_investment |->
         [type |-> "number", value |-> st.trading_days_since_last_investment],
     investment_history |->
         [type |-> "array",
          value |-> [i \in 1..Len(st.investment_history) |->
                        [date |-> [type |-> "string",
                                   value |-> st.investment_history[i].date],
                         trigger |-> [type |-> "string",
                                      value |-> st.investment_history[i].trigger],
                         message |-> [type |-> "string",
                                      value |-> st.investment_history[i].message]]]]]

(* a load that restores the two scalar fields only *)
JsonLoadWithoutHistory(doc) ==
    [last_investment_date |->
         IF doc.last_investment_date.type = "null"
         THEN Null
         ELSE doc.last_investment_date.value,
     trading_days_since_last_investment |->
         doc.trading_days_since_last_investment.value,
     investment_history |-> <<>>]

(* json.load(f): the state a document yields *)
json_load(doc) ==
    [last_investment_date |->
         IF doc.last_investment_date.type = "null"
         THEN Null
         ELSE doc.last_investment_date.value,
     trading_days_since_last_investment |->
         doc.trading_days_since_last_investment.value,
     investment_history |->
         [i \in 1..Len(doc.investment_history.value) |->
             [date |-> doc.investment_history.value[i].date.value,
              trigger |-> doc.investment_history.value[i].trigger.value,
              message |-> doc.investment_history.value[i].message.value]]]

(* The content of a record that is absent or does not parse: nothing that  *)
(* is ever read                                                            *)
NoDocument == json_dump(DefaultState)

NoMarketData == [nifty_close |-> 0, sma_20 |-> <<>>, vix |-> <<>>]

NoResult == [returned |-> FALSE, action_taken |-> FALSE, sms |-> "none"]

(* The snapshots the data provider may return: close against the 20-day    *)
(* average on either side of the -2.5% boundary, a missing average, a zero *)
(* and a negative average, and the VIX absent, zero, at 22 and above 22.   *)
Snapshots ==
    { [nifty_close |-> c, sma_20 |-> <<400>>, vix |-> v] :
          c \in {389, 390, 391, 400}, v \in {<<>>, <<23>>} }
    \cup { [nifty_close |-> 400, sma_20 |-> <<400>>, vix |-> v] :
          v \in {<<0>>, <<22>>} }
    \cup { [nifty_close |-> c, sma_20 |-> <<17500>>, vix |-> <<>>] :
          c \in {17000, 17062, 17063} }
    \cup { [nifty_close |-> c, sma_20 |-> <<>>, vix |-> <<>>] : c \in {300, 400} }
    \cup { [nifty_close |-> c, sma_20 |-> <<0>>, vix |-> <<>>] : c \in {-390, 0, 390} }
    \cup { [nifty_close |-> c, sma_20 |-> <<-400>>, vix |-> <<>>] : c \in {-410, -390} }

----------------------------------------------------------------------------
(* check_triggers *)

Abs(x) == IF x < 0 THEN -x ELSE x

(* price_dip_percentage = (close - sma) / sma * 100 in IEEE arithmetic, as *)
(* a fraction num/den of percent with den > 0, or nan, -inf, +inf.         *)
PriceDipPercentage(md) ==
    IF md.sma_20 = <<>> THEN [kind |-> "nan", num |-> 0, den |-> 1]
    ELSE LET sma == md.sma_20[1]
             diff == md.nifty_close - sma
         IN  IF sma = 0
             THEN IF diff = 0 THEN [kind |-> "nan", num |-> 0, den |-> 1]
                  ELSE IF diff < 0 THEN [kind |-> "neginf", num |-> 0, den |-> 1]
                  ELSE [kind |-> "posinf", num |-> 0, den |-> 1]
             ELSE IF sma > 0
                  THEN [kind |-> "fin", num |-> diff * 100, den |-> sma]
                  ELSE [kind |-> "fin", num |-> (-diff) * 100, den |-> -sma]

(* the comparison written with < *)
DipBelowThreshold(dip) ==
    \/ dip.kind = "neginf"
    \/ dip.kind = "fin" /\ 10 * dip.num < (-DipThresholdTenths) * dip.den

(* price_dip_percentage <= -2.5 *)
DipAtMostThreshold(dip) ==
    \/ dip.kind = "neginf"
    \/ dip.kind = "fin" /\ 10 * dip.num <= (-DipThresholdTenths) * dip.den

(* f"{abs(price_dip_percentage):.2f}", in hundredths of a percent; -1 is   *)
(* the text "inf".                                                         *)
FormatDip(dip) ==
    IF dip.kind = "fin"
    THEN (2 * Abs(dip.num) * 100 + dip.den) \div (2 * dip.den)
    ELSE -1

PriceDipTrigger(md) ==
    LET dip == PriceDipPercentage(md)
    IN  IF DipAtMostThreshold(dip)
        THEN << [type |-> "PRICE_DIP", message |-> FormatDip(dip)] >>
        ELSE <<>>

(* the comparison written with >= *)
VolatilityTriggerAtLeast(md) ==
    IF md.vix # <<>> /\ md.vix[1] # 0 /\ md.vix[1] >= VixThreshold
    THEN << [type |-> "VOLATILITY_SPIKE", message |-> md.vix[1] * 100] >>
    ELSE <<>>

(* market_data['vix'] and market_data['vix'] > 22 *)
VolatilityTrigger(md) ==
    IF md.vix # <<>> /\ md.vix[1] # 0 /\ md.vix[1] > VixThreshold
    THEN << [type |-> "VOLATILITY_SPIKE", message |-> md.vix[1] * 100] >>
    ELSE <<>>

(* the comparison written with > *)
TimeTriggerAfterThreshold(st) ==
    IF st.trading_days_since_last_investment > TimeThreshold
    THEN << [type |-> "TIME_BASED", message |-> TimeThreshold] >>
    ELSE <<>>

(* self.state['trading_days_since_last_investment'] >= 20 *)
TimeTrigger(st) ==
    IF st.trading_days_since_last_investment >= TimeThreshold
    THEN << [type |-> "TIME_BASED", message |-> TimeThreshold] >>
    ELSE <<>>

(* check_triggers stopping at the first condition that holds *)
CheckTriggersShortCircuit(md, st) ==
    IF PriceDipTrigger(md) # <<>> THEN PriceDipTrigger(md)
    ELSE IF VolatilityTrigger(md) # <<>> THEN VolatilityTrigger(md)
    ELSE TimeTrigger(st)

check_triggers(md, st) ==
    PriceDipTrigger(md) \o VolatilityTrigger(md) \o TimeTrigger(st)

----------------------------------------------------------------------------
(* Init *)

Init ==
    /\ file = [status |-> "absent", data |-> NoDocument]
    /\ today = 1
    /\ pc = [p \in Procs |-> "idle"]
    /\ state = [p \in Procs |-> DefaultState]
    /\ entry = [p \in Procs |-> DefaultState]
    /\ market_data = [p \in Procs |-> NoMarketData]
    /\ triggers = [p \in Procs |-> <<>>]
    /\ result = [p \in Procs |-> NoResult]

----------------------------------------------------------------------------
(* load_state / save_state *)

(* open(self.state_file, 'w'): the file exists and is empty until the dump *)
(* completes; an empty or half-written document does not parse.            *)
Truncated == [status |-> "malformed", data |-> NoDocument]

(* json.dump(self.state, f, indent=4) completed and the file closed *)
Written(st) == [status |-> "valid", data |-> json_dump(st)]

Saving(p) == pc[p] \in {"init_saving", "saving"}

(* load_state catching every exception: an unparsable record is treated   *)
(* like a missing one                                                      *)
ConstructResetting(p) ==
    /\ pc[p] = "idle"
    /\ file.status = "valid" =>
          Len(json_load(file.data).investment_history) < MaxHistory
    /\ \/ /\ file.status = "valid"
          /\ state' = [state EXCEPT ![p] = json_load(file.data)]
          /\ pc' = [pc EXCEPT ![p] = "ready"]
          /\ file' = file
       \/ /\ file.status \in {"absent", "malformed"}
          /\ state' = [state EXCEPT ![p] = DefaultState]
          /\ file' = Truncated
          /\ pc' = [pc EXCEPT ![p] = "init_saving"]
    /\ UNCHANGED <<today, entry, market_data, triggers, result>>

(* __init__ -> load_state.  A record that parses becomes self.state; a     *)
(* record that does not parse raises out of the constructor; with no       *)
(* record the default state is built and save_state begins.                *)
Construct(p) ==
    /\ pc[p] = "idle"
    /\ file.status = "valid" =>
          Len(json_load(file.data).investment_history) < MaxHistory
    /\ \/ /\ file.status = "valid"
          /\ state' = [state EXCEPT ![p] = json_load(file.data)]
          /\ pc' = [pc EXCEPT ![p] = "ready"]
          /\ file' = file
       \/ /\ file.status = "malformed"
          /\ pc' = [pc EXCEPT ![p] = "load_failed"]
          /\ UNCHANGED <<state, file>>
       \/ /\ file.status = "absent"
          /\ state' = [state EXCEPT ![p] = DefaultState]
          /\ file' = Truncated
          /\ pc' = [pc EXCEPT ![p] = "init_saving"]
    /\ UNCHANGED <<today, entry, market_data, triggers, result>>

----------------------------------------------------------------------------
(* daily_check *)

(* the increment without its condition *)
IncrementCounterAlways(st) ==
    [st EXCEPT !.trading_days_since_last_investment = @ + 1]

(* if self.state['last_investment_date']: counter += 1 *)
IncrementCounter(st) ==
    IF st.last_investment_date # Null
    THEN [st EXCEPT !.trading_days_since_last_investment = @ + 1]
    ELSE st

(* execute_investment without line 116 *)
RecordInvestmentNoReset(st, trigger, date) ==
    [last_investment_date |-> date,
     trading_days_since_last_investment |->
         st.trading_days_since_last_investment,
     investment_history |->
         Append(st.investment_history,
                [date |-> date, trigger |-> trigger.type,
                 message |-> trigger.message])]

(* execute_investment without line 115 *)
RecordInvestmentKeepsDate(st, trigger, date) ==
    [last_investment_date |-> st.last_investment_date,
     trading_days_since_last_investment |-> 0,
     investment_history |->
         Append(st.investment_history,
                [date |-> date, trigger |-> trigger.type,
                 message |-> trigger.message])]

(* execute_investment assigning a new list instead of appending *)
RecordInvestmentOverwrites(st, trigger, date) ==
    [last_investment_date |-> date,
     trading_days_since_last_investment |-> 0,
     investment_history |->
         << [date |-> date, trigger |-> trigger.type,
             message |-> trigger.message] >>]

(* execute_investment, the part before save_state *)
RecordInvestment(st, trigger, date) ==
    [last_investment_date |-> date,
     trading_days_since_last_investment |-> 0,
     investment_history |->
         Append(st.investment_history,
                [date |-> date, trigger |-> trigger.type,
                 message |-> trigger.message])]

(* daily_check clearing the counter when nothing fired *)
DecideClearsCounter(st, trigs, date) ==
    IF trigs # <<>>
    THEN [last_investment_date |-> date,
          trading_days_since_last_investment |-> 0,
          investment_history |->
              Append(st.investment_history,
                     [date |-> date, trigger |-> trigs[1].type,
                      message |-> trigs[1].message])]
    ELSE [st EXCEPT !.trading_days_since_last_investment = 0]

(* daily_check executing the last trigger of the list *)
DecideLast(st, trigs, date) ==
    IF trigs # <<>> THEN RecordInvestment(st, trigs[Len(trigs)], date) ELSE st

(* The state daily_check hands to save_state: execute_investment on the    *)
(* first trigger, or the incremented state when none fired.                *)
Decide(st, trigs, date) ==
    IF trigs # <<>> THEN RecordInvestment(st, trigs[1], date) ELSE st

(* daily_check saving the incremented state before it fetches *)
FetchFailsSaved(p) ==
    /\ pc[p] = "ready"
    /\ entry' = [entry EXCEPT ![p] = state[p]]
    /\ state' = [state EXCEPT ![p] = IncrementCounter(state[p])]
    /\ file' = Written(IncrementCounter(state[p]))
    /\ pc' = [pc EXCEPT ![p] = "failed"]
    /\ UNCHANGED <<today, market_data, triggers, result>>

(* fetch_market_data raises (provider unreachable, empty series): the      *)
(* exception leaves daily_check after the increment and before any save.   *)
FetchFails(p) ==
    /\ pc[p] = "ready"
    /\ entry' = [entry EXCEPT ![p] = state[p]]
    /\ state' = [state EXCEPT ![p] = IncrementCounter(state[p])]
    /\ pc' = [pc EXCEPT ![p] = "failed"]
    /\ UNCHANGED <<file, today, market_data, triggers, result>>

(* daily_check up to the open() of its save_state call: the increment, the *)
(* fetch (returning a snapshot of S), check_triggers, and                  *)
(* execute_investment's update of self.state.                              *)
DailyCheckOn(p, S) ==
    /\ pc[p] = "ready"
    /\ \E md \in S :
          LET st1 == IncrementCounter(state[p])
              trigs == check_triggers(md, st1)
          IN  /\ market_data' = [market_data EXCEPT ![p] = md]
              /\ triggers' = [triggers EXCEPT ![p] = trigs]
              /\ state' = [state EXCEPT ![p] = Decide(st1, trigs, today)]
    /\ entry' = [entry EXCEPT ![p] = state[p]]
    /\ file' = Truncated
    /\ pc' = [pc EXCEPT ![p] = "saving"]
    /\ UNCHANGED <<today, result>>

DailyCheck(p) == DailyCheckOn(p, Snapshots)

(* Where the process continues once its save_state has returned *)
AfterSave(p) ==
    IF pc[p] = "init_saving" THEN "ready"
    ELSE IF triggers[p] # <<>> THEN "notify" ELSE "done"

ResultAfterSave(p) ==
    IF pc[p] = "saving" /\ triggers[p] = <<>>
    THEN [returned |-> TRUE, action_taken |-> FALSE, sms |-> "none"]
    ELSE result[p]

(* json.dump and close: the record now holds self.state *)
WriteState(p) ==
    /\ Saving(p)
    /\ file' = Written(state[p])
    /\ pc' = [pc EXCEPT ![p] = AfterSave(p)]
    /\ result' = [result EXCEPT ![p] = ResultAfterSave(p)]
    /\ UNCHANGED <<today, state, entry, market_data, triggers>>

(* The dump of a process whose file another process has written since this *)
(* one opened it: the bytes land over the other document, and what remains *)
(* past the end of the shorter one makes the record unparsable.            *)
WriteStateTorn(p) ==
    /\ Saving(p)
    /\ file.status = "valid"
    /\ file' = Truncated
    /\ pc' = [pc EXCEPT ![p] = AfterSave(p)]
    /\ result' = [result EXCEPT ![p] = ResultAfterSave(p)]
    /\ UNCHANGED <<today, state, entry, market_data, triggers>>

(* send_sms_alert without its try/except: a delivery failure leaves        *)
(* daily_check by the exception                                            *)
NotifyPropagates(p) ==
    /\ pc[p] = "notify"
    /\ \E outcome \in {"sent", "failed", "unconfigured"} :
          IF outcome = "failed"
          THEN /\ pc' = [pc EXCEPT ![p] = "failed"]
               /\ result' = result
          ELSE /\ pc' = [pc EXCEPT ![p] = "done"]
               /\ result' = [result EXCEPT ![p] =
                                [returned |-> TRUE, action_taken |-> TRUE,
                                 sms |-> outcome]]
    /\ UNCHANGED <<file, today, state, entry, market_data, triggers>>

(* send_sms_alert after execute_investment's save: delivered, failed (the  *)
(* exception is caught and printed) or Twilio not configured; then return. *)
Notify(p) ==
    /\ pc[p] = "notify"
    /\ \E outcome \in {"sent", "failed", "unconfigured"} :
          result' = [result EXCEPT ![p] =
                        [returned |-> TRUE, action_taken |-> TRUE, sms |-> outcome]]
    /\ pc' = [pc EXCEPT ![p] = "done"]
    /\ UNCHANGED <<file, today, state, entry, market_data, triggers>>

(* The process dies between open() and the end of json.dump *)
Crash(p) ==
    /\ Saving(p)
    /\ pc' = [pc EXCEPT ![p] = "crashed"]
    /\ UNCHANGED <<file, today, state, entry, market_data, triggers, result>>

(* The process ends; its agent object is gone *)
Exit(p) ==
    /\ pc[p] \in {"done", "failed", "load_failed", "crashed",
                 "panel", "panel_failed"}
    /\ pc' = [pc EXCEPT ![p] = "idle"]
    /\ state' = [state EXCEPT ![p] = DefaultState]
    /\ entry' = [entry EXCEPT ![p] = DefaultState]
    /\ market_data' = [market_data EXCEPT ![p] = NoMarketData]
    /\ triggers' = [triggers EXCEPT ![p] = <<>>]
    /\ result' = [result EXCEPT ![p] = NoResult]
    /\ UNCHANGED <<file, today>>

(* Midnight *)
Tick ==
    /\ today < MaxDay
    /\ today' = today + 1
    /\ UNCHANGED <<file, pc, state, entry, market_data, triggers, result>>

----------------------------------------------------------------------------
(* One invocation at a time, run to completion: the scheduler fires        *)
(* run_daily_check once a day.                                             *)

Alone(p) == \A q \in Procs \ {p} : pc[q] = "idle"

Next ==
    \/ \E p \in Procs : Alone(p) /\ Construct(p)
    \/ \E p \in Procs : FetchFails(p)
    \/ \E p \in Procs : DailyCheck(p)
    \/ \E p \in Procs : WriteState(p)
    \/ \E p \in Procs : Notify(p)
    \/ \E p \in Procs : Crash(p)
    \/ \E p \in Procs : Exit(p)
    \/ Tick

Spec == Init /\ [][Next]_vars

----------------------------------------------------------------------------
(* Overlapping invocations: nothing in the code orders two processes, so   *)
(* every interleaving of their steps on the file is a behaviour.  The      *)
(* provider's answers are cut down to one snapshot per outcome and runs    *)
(* start only while the persisted counter is below MaxOverlapCounter.      *)

OverlapSnapshots ==
    { [nifty_close |-> c, sma_20 |-> <<400>>, vix |-> <<>>] : c \in {390, 400} }

OverlapStart(p) ==
    /\ file.status = "valid" =>
          json_load(file.data).trading_days_since_last_investment
              < MaxOverlapCounter
    /\ Construct(p)

OverlapNext ==
    \/ \E p \in Procs : OverlapStart(p)
    \/ \E p \in Procs : FetchFails(p)
    \/ \E p \in Procs : DailyCheckOn(p, OverlapSnapshots)
    \/ \E p \in Procs : WriteState(p)
    \/ \E p \in Procs : WriteStateTorn(p)
    \/ \E p \in Procs : Notify(p)
    \/ \E p \in Procs : Exit(p)
    \/ Tick

OverlapSpec == Init /\ [][OverlapNext]_vars

----------------------------------------------------------------------------
(* The dashboard script (src/dashboard_nifty50.py): it constructs an agent, *)
(* runs daily_check when the button was pressed, and then fills the        *)
(* "Current Triggers" panel from a fetch of its own and check_triggers.    *)

(* What the script's fetches return: one snapshot for each outcome of the  *)
(* price and the volatility condition                                      *)
PanelSnapshots ==
    { [nifty_close |-> c, sma_20 |-> <<400>>, vix |-> v] :
          c \in {390, 400}, v \in {<<>>, <<23>>} }

Panel(p) ==
    /\ pc[p] \in {"ready", "done"}
    /\ \E md \in PanelSnapshots :
          /\ market_data' = [market_data EXCEPT ![p] = md]
          /\ triggers' = [triggers EXCEPT ![p] = check_triggers(md, state[p])]
    /\ pc' = [pc EXCEPT ![p] = "panel"]
    /\ UNCHANGED <<file, today, state, entry, result>>

(* The panel's fetch_market_data raises and ends the script *)
PanelFetchFails(p) ==
    /\ pc[p] \in {"ready", "done"}
    /\ pc' = [pc EXCEPT ![p] = "panel_failed"]
    /\ UNCHANGED <<file, today, state, entry, market_data, triggers, result>>

DashboardNext ==
    \/ \E p \in Procs : Alone(p) /\ Construct(p)
    \/ \E p \in Procs : FetchFails(p)
    \/ \E p \in Procs : DailyCheckOn(p, PanelSnapshots)
    \/ \E p \in Procs : WriteState(p)
    \/ \E p \in Procs : Notify(p)
    \/ \E p \in Procs : Crash(p)
    \/ \E p \in Procs : Panel(p)
    \/ \E p \in Procs : PanelFetchFails(p)
    \/ \E p \in Procs : Exit(p)
    \/ Tick

DashboardSpec == Init /\ [][DashboardNext]_vars

----------------------------------------------------------------------------
(* Properties *)

Counter(st) == st.trading_days_since_last_investment
History(st) == st.investment_history
Date(st) == st.last_investment_date

HasType(trigs, t) == \E i \in 1..Len(trigs) : trigs[i].type = t

(* The process is inside daily_check, or has returned from it *)
InCheck(p) == pc[p] \in {"failed", "saving", "notify", "done"}

(* C1: over the steps of daily_check the counter is set to 0 in exactly    *)
(* the steps that append an entry to investment_history, and a step that   *)
(* appends nothing does not decrease it; what a completed run writes to    *)
(* the record carries the same relation to the state the run loaded.       *)
C1_CounterResetsWithAppend ==
    [][\A p \in Procs :
          /\ (pc[p] # "idle" /\ pc'[p] # "idle") =>
                /\ Len(History(state'[p])) \in
                      {Len(History(state[p])), Len(History(state[p])) + 1}
                /\ Len(History(state'[p])) = Len(History(state[p])) + 1 =>
                      Counter(state'[p]) = 0
                /\ Len(History(state'[p])) = Len(History(state[p])) =>
                      Counter(state'[p]) >= Counter(state[p])
          /\ (pc[p] = "saving" /\ pc'[p] \in {"notify", "done"}) =>
                /\ file'.status = "valid"
                /\ Len(History(json_load(file'.data)))
                      = Len(History(entry[p])) + 1 =>
                      Counter(json_load(file'.data)) = 0
                /\ Len(History(json_load(file'.data)))
                      = Len(History(entry[p])) =>
                      Counter(json_load(file'.data)) >= Counter(entry[p])
      ]_vars

(* A run that recorded an investment when its counter stood above 0 *)
C1_Witness ==
    \E p \in Procs :
        /\ pc[p] = "notify"
        /\ Counter(entry[p]) > 0
        /\ Counter(state[p]) = 0
        /\ Len(History(state[p])) = Len(History(entry[p])) + 1

(* C2: when the fetch fails daily_check ends by the exception with the     *)
(* record untouched: the increment made before the fetch stays in the      *)
(* dying agent, the record keeps the state the run loaded, and the         *)
(* process can only exit.                                                  *)
C2_FailedFetchNotPersisted ==
    /\ [](\A p \in Procs : pc[p] = "failed" =>
              /\ file = Written(entry[p])
              /\ state[p] = IncrementCounter(entry[p])
              /\ ~ result[p].returned)
    /\ [][\A p \in Procs :
              /\ (pc[p] = "ready" /\ pc'[p] = "failed") => file' = file
              /\ pc[p] = "failed" =>
                    /\ file' = file
                    /\ pc'[p] \in {"failed", "idle"}
                    /\ state'[p] \in {state[p], DefaultState}
       ]_vars

(* A failed fetch after an in-memory increment the record does not show *)
C2_Witness ==
    \E p \in Procs :
        /\ pc[p] = "failed"
        /\ Counter(state[p]) = Counter(entry[p]) + 1
        /\ file.status = "valid"
        /\ Counter(json_load(file.data)) = Counter(entry[p])

(* The first type, in the order PRICE_DIP, VOLATILITY_SPIKE, TIME_BASED,   *)
(* among the triggers that fired                                           *)
FirstByPriority(trigs) ==
    IF HasType(trigs, "PRICE_DIP") THEN "PRICE_DIP"
    ELSE IF HasType(trigs, "VOLATILITY_SPIKE") THEN "VOLATILITY_SPIKE"
    ELSE "TIME_BASED"

(* C3: a daily_check in which triggers fired has appended exactly one      *)
(* entry, whose trigger is the first fired one in the order PRICE_DIP,     *)
(* VOLATILITY_SPIKE, TIME_BASED, and has set the counter to 0.             *)
C3_FirstTriggerRecorded ==
    \A p \in Procs :
        (pc[p] \in {"saving", "notify", "done"} /\ triggers[p] # <<>>) =>
            /\ Len(History(state[p])) = Len(History(entry[p])) + 1
            /\ SubSeq(History(state[p]), 1, Len(History(entry[p]))) =
                  History(entry[p])
            /\ History(state[p])[Len(History(state[p]))].trigger =
                  FirstByPriority(triggers[p])
            /\ Counter(state[p]) = 0

(* All three triggers fired in one run and PRICE_DIP alone was recorded *)
C3_Witness ==
    \E p \in Procs :
        /\ pc[p] = "notify"
        /\ Len(triggers[p]) = 3
        /\ Len(History(state[p])) = Len(History(entry[p])) + 1
        /\ History(state[p])[Len(History(state[p]))].trigger = "PRICE_DIP"
        /\ Counter(state[p]) = 0

(* C4: overlapping runs are serialised on the record: every run begins its *)
(* save with the record still holding the state the run loaded, so that no *)
(* increment or history entry another run has written in between is lost   *)
(* or counted twice.                                                       *)
C4_RunsSerialised ==
    [][\A p \in Procs :
          (pc[p] = "ready" /\ pc'[p] = "saving") =>
              file = Written(state[p])
    ]_vars

(* C5: after a crash inside save_state the record is the complete previous *)
(* state (or still absent) or the complete new state.                      *)
C5_SaveAtomic ==
    \A p \in Procs :
        pc[p] = "crashed" =>
            \/ file.status = "absent"
            \/ file \in {Written(entry[p]), Written(state[p])}

(* C6 as stated: a daily_check in which no trigger fired has incremented   *)
(* the counter by exactly 1, appended nothing, kept last_investment_date   *)
(* and persisted that state.                                               *)
C6_NoTriggerIncrementsByOne ==
    \A p \in Procs :
        (pc[p] = "done" /\ ~ result[p].action_taken) =>
            /\ Counter(state[p]) = Counter(entry[p]) + 1
            /\ History(state[p]) = History(entry[p])
            /\ Date(state[p]) = Date(entry[p])
            /\ file = Written(state[p])

(* C6 amended: a daily_check in which no trigger fired has incremented the *)
(* counter by exactly 1 when last_investment_date was set and left it      *)
(* unchanged when it was null, appended nothing, kept last_investment_date *)
(* and persisted that state.                                               *)
C6_NoTriggerIncrementsIfInvested ==
    \A p \in Procs :
        (pc[p] = "done" /\ ~ result[p].action_taken) =>
            /\ Counter(state[p]) =
                  Counter(entry[p]) + (IF Date(entry[p]) # Null THEN 1 ELSE 0)
            /\ History(state[p]) = History(entry[p])
            /\ Date(state[p]) = Date(entry[p])
            /\ file = Written(state[p])

(* A run without trigger that raised a counter already above 0 *)
C6_Witness ==
    \E p \in Procs :
        /\ pc[p] = "done"
        /\ ~ result[p].action_taken
        /\ Date(entry[p]) # Null
        /\ Counter(entry[p]) > 0
        /\ Counter(state[p]) = Counter(entry[p]) + 1
        /\ file = Written(state[p])

(* C7: a run that starts with last_investment_date null does not increment *)
(* the counter: it is 0 when the triggers are evaluated (TIME_BASED does   *)
(* not fire), 0 when the fetch fails and 0 in what is saved; the counter   *)
(* rises only in runs that start with the date set.                        *)
C7_NoIncrementBeforeFirstInvestment ==
    \A p \in Procs :
        InCheck(p) =>
            /\ Date(entry[p]) = Null =>
                  /\ Counter(entry[p]) = 0
                  /\ Counter(state[p]) = 0
                  /\ ~ HasType(triggers[p], "TIME_BASED")
            /\ Counter(state[p]) > Counter(entry[p]) => Date(entry[p]) # Null

(* A first-ever run in which nothing fired and the counter stayed 0 *)
C7_Witness ==
    \E p \in Procs :
        /\ pc[p] = "done"
        /\ ~ result[p].action_taken
        /\ Date(entry[p]) = Null
        /\ Counter(state[p]) = 0
        /\ file = Written(state[p])

(* C8: execute_investment, whatever the counter and the trigger, sets      *)
(* last_investment_date to the current date, the counter to 0, appends     *)
(* exactly one entry with that date and the trigger's type and message,    *)
(* and save_state writes the resulting state to the record.                *)
C8_RecordingInvestment ==
    /\ [][\A p \in Procs :
              /\ (pc[p] = "ready" /\ pc'[p] = "saving" /\ triggers'[p] # <<>>) =>
                    /\ Date(state'[p]) = today
                    /\ Counter(state'[p]) = 0
                    /\ History(state'[p]) =
                          Append(History(state[p]),
                                 [date |-> today,
                                  trigger |-> triggers'[p][1].type,
                                  message |-> triggers'[p][1].message])
              /\ (pc[p] = "saving" /\ pc'[p] = "notify") =>
                    /\ state'[p] = state[p]
                    /\ file' = Written(state[p])
       ]_vars
    /\ [](\A p \in Procs :
              pc[p] = "notify" => file = Written(state[p]))

(* An investment recorded on a TIME_BASED trigger from a counter of 20,    *)
(* and persisted                                                           *)
C8_Witness ==
    \E p \in Procs :
        /\ pc[p] = "notify"
        /\ Counter(entry[p]) = TimeThreshold - 1
        /\ triggers[p][1].type = "TIME_BASED"
        /\ Counter(state[p]) = 0
        /\ Date(state[p]) # Date(entry[p])
        /\ file = Written(state[p])

(* C9: for a snapshot with sma_20 > 0, check_triggers returned PRICE_DIP   *)
(* iff (index_close - sma_20) / sma_20 * 100 <= -2.5, that is, iff         *)
(* 1000 * (index_close - sma_20) <= -25 * sma_20.                          *)
C9_PriceDipIffAtMostThreshold ==
    \A p \in Procs :
        (pc[p] \in {"saving", "notify", "done"}
            /\ market_data[p].sma_20 # <<>>
            /\ market_data[p].sma_20[1] > 0) =>
            (HasType(triggers[p], "PRICE_DIP") <=>
                1000 * (market_data[p].nifty_close - market_data[p].sma_20[1])
                    <= (-25) * market_data[p].sma_20[1])

(* A close exactly 2.5% below the average fired PRICE_DIP *)
C9_Witness ==
    \E p \in Procs :
        /\ pc[p] = "notify"
        /\ market_data[p].sma_20 = <<400>>
        /\ market_data[p].nifty_close = 390
        /\ triggers[p][1].type = "PRICE_DIP"

(* C10: for a snapshot whose sma_20 is not a finite positive number (NaN,  *)
(* zero, negative) check_triggers returned no PRICE_DIP trigger.           *)
C10_NoPriceDipWithoutPositiveSma ==
    \A p \in Procs :
        (pc[p] \in {"saving", "notify", "done"}
            /\ (market_data[p].sma_20 = <<>> \/ market_data[p].sma_20[1] <= 0)) =>
            ~ HasType(triggers[p], "PRICE_DIP")

(* C11: check_triggers returned VOLATILITY_SPIKE iff the snapshot's VIX is *)
(* present and strictly greater than 22; with the VIX absent the trigger   *)
(* did not fire and the run went on to its save.                           *)
C11_VolatilityIffAbove22 ==
    \A p \in Procs :
        pc[p] \in {"saving", "notify", "done"} =>
            (HasType(triggers[p], "VOLATILITY_SPIKE") <=>
                (market_data[p].vix # <<>> /\ market_data[p].vix[1] > 22))

(* A VIX of 23 fired VOLATILITY_SPIKE alone *)
C11_Witness ==
    \E p \in Procs :
        /\ pc[p] = "notify"
        /\ market_data[p].vix = <<23>>
        /\ Len(triggers[p]) = 1
        /\ triggers[p][1].type = "VOLATILITY_SPIKE"

(* The counter check_triggers sees in a run: the loaded one, plus 1 when   *)
(* an investment had been recorded                                         *)
CounterEvaluated(p) ==
    Counter(entry[p]) + (IF Date(entry[p]) # Null THEN 1 ELSE 0)

TriggerTypes(trigs) == [i \in 1..Len(trigs) |-> trigs[i].type]

(* The types whose condition holds, each condition taken on its own, in    *)
(* the order PRICE_DIP, VOLATILITY_SPIKE, TIME_BASED                       *)
MatchingTypes(md, st) ==
    (IF PriceDipTrigger(md) # <<>> THEN <<"PRICE_DIP">> ELSE <<>>)
    \o (IF VolatilityTrigger(md) # <<>> THEN <<"VOLATILITY_SPIKE">> ELSE <<>>)
    \o (IF TimeTrigger(st) # <<>> THEN <<"TIME_BASED">> ELSE <<>>)

(* C13: check_triggers returns every trigger whose condition holds, in the *)
(* order PRICE_DIP, VOLATILITY_SPIKE, TIME_BASED (in daily_check against   *)
(* the incremented state, in the dashboard panel against the agent's       *)
(* state), and the panel's call changes neither the agent's state nor the  *)
(* persisted record.                                                       *)
C13_CheckTriggersPure ==
    /\ [](\A p \in Procs :
              /\ pc[p] \in {"saving", "notify", "done"} =>
                    TriggerTypes(triggers[p]) =
                        MatchingTypes(market_data[p], IncrementCounter(entry[p]))
              /\ pc[p] = "panel" =>
                    TriggerTypes(triggers[p]) =
                        MatchingTypes(market_data[p], state[p]))
    /\ [][\A p \in Procs :
              (pc[p] # "panel" /\ pc'[p] = "panel") =>
                  /\ state' = state
                  /\ file' = file
       ]_vars

(* The panel shows PRICE_DIP and VOLATILITY_SPIKE together after a         *)
(* daily_check of the same script run recorded an investment               *)
C13_Witness ==
    \E p \in Procs :
        /\ pc[p] = "panel"
        /\ result[p].action_taken
        /\ TriggerTypes(triggers[p]) = <<"PRICE_DIP", "VOLATILITY_SPIKE">>
        /\ History(state[p]) # <<>>

C15_NotificationNeverBlocksRecording ==
    /\ [](\A p \in Procs :
              /\ pc[p] = "notify" =>
                    /\ file = Written(state[p])
                    /\ Counter(state[p]) = 0
                    /\ Len(History(state[p])) = Len(History(entry[p])) + 1
              /\ (pc[p] = "done" /\ triggers[p] # <<>>) =>
                    /\ result[p].returned
                    /\ result[p].action_taken
                    /\ result[p].sms \in {"sent", "failed", "unconfigured"}
                    /\ file = Written(state[p])
                    /\ Len(History(state[p])) = Len(History(entry[p])) + 1)
    /\ [][\A p \in Procs :
              (pc[p] = "notify" /\ pc'[p] # "notify") =>
                  /\ pc'[p] = "done"
                  /\ result'[p].action_taken
                  /\ file' = file
                  /\ state'[p] = state[p]
       ]_vars

(* A run whose SMS failed returned action_taken with the investment in the *)
(* record                                                                  *)
C15_Witness ==
    \E p \in Procs :
        /\ pc[p] = "done"
        /\ result[p].sms = "failed"
        /\ result[p].action_taken
        /\ file = Written(state[p])
        /\ History(state[p]) # <<>>

IsPrefix(a, b) == Len(a) <= Len(b) /\ SubSeq(b, 1, Len(a)) = a

(* C16: investment_history is append-only over loads, checks and           *)
(* recordings: every step of an agent keeps its history as a prefix and    *)
(* adds at most one entry, a load takes the history of the record, and the *)
(* record a run writes has the history the run loaded as a prefix, with at *)
(* most one entry more.                                                    *)
C16_HistoryAppendOnly ==
    /\ [][\A p \in Procs :
              /\ (pc[p] # "idle" /\ pc'[p] # "idle") =>
                    /\ IsPrefix(History(state[p]), History(state'[p]))
                    /\ Len(History(state'[p])) <= Len(History(state[p])) + 1
              /\ (pc[p] = "idle" /\ pc'[p] = "ready") =>
                    History(state'[p]) = History(json_load(file.data))
              /\ (pc[p] = "saving" /\ pc'[p] \in {"notify", "done"}) =>
                    /\ file'.status = "valid"
                    /\ IsPrefix(History(entry[p]),
                                History(json_load(file'.data)))
                    /\ Len(History(json_load(file'.data)))
                          <= Len(History(entry[p])) + 1
       ]_vars
    /\ [](\A p \in Procs :
              InCheck(p) =>
                  /\ IsPrefix(History(entry[p]), History(state[p]))
                  /\ Len(History(state[p])) <= Len(History(entry[p])) + 1)

(* A second investment written after the first, which is still the first   *)
(* entry of the record                                                     *)
C16_Witness ==
    \E p \in Procs :
        /\ pc[p] = "notify"
        /\ Len(History(entry[p])) = 1
        /\ Len(History(state[p])) = 2
        /\ History(state[p])[1] = History(entry[p])[1]
        /\ History(state[p])[2] # History(state[p])[1]
        /\ file = Written(state[p])

DateMatchesHistory(st) ==
    /\ Date(st) = Null <=> History(st) = <<>>
    /\ History(st) # <<>> => Date(st) = History(st)[Len(History(st))].date

(* C19: in every agent and in every valid record last_investment_date is   *)
(* null iff investment_history is empty and otherwise equals the date of   *)
(* the last entry; once set, no step of an agent and no write of a run     *)
(* that loaded it set makes it null again.                                 *)
C19_DateSetIffHistory ==
    /\ [](/\ file.status = "valid" => DateMatchesHistory(json_load(file.data))
          /\ \A p \in Procs : DateMatchesHistory(state[p]))
    /\ [][\A p \in Procs :
              /\ (pc[p] # "idle" /\ pc'[p] # "idle" /\ Date(state[p]) # Null) =>
                    Date(state'[p]) # Null
              /\ (pc[p] = "saving" /\ pc'[p] \in {"notify", "done"}
                    /\ Date(entry[p]) # Null) =>
                    Date(json_load(file'.data)) # Null
       ]_vars

(* A record with two entries of different dates, dated as the second *)
C19_Witness ==
    /\ file.status = "valid"
    /\ Len(History(json_load(file.data))) = 2
    /\ History(json_load(file.data))[1].date = 1
    /\ History(json_load(file.data))[2].date = 2
    /\ Date(json_load(file.data)) = 2

(* C20: from the default state TIME_BASED cannot produce the first         *)
(* investment: while the history is empty the counter stays 0, a run that  *)
(* starts without an investment fires only on a PRICE_DIP or               *)
(* VOLATILITY_SPIKE condition, and the first entry of any history is never *)
(* TIME_BASED.                                                             *)
C20_TimeBasedNeverFirst ==
    /\ file.status = "valid" =>
          /\ History(json_load(file.data)) = <<>> =>
                json_load(file.data) = DefaultState
          /\ History(json_load(file.data)) # <<>> =>
                History(json_load(file.data))[1].trigger # "TIME_BASED"
    /\ \A p \in Procs :
          /\ History(state[p]) = <<>> => state[p] = DefaultState
          /\ History(state[p]) # <<>> =>
                History(state[p])[1].trigger # "TIME_BASED"
          /\ (pc[p] \in {"saving", "notify", "done"}
                /\ History(entry[p]) = <<>>) =>
                /\ ~ HasType(triggers[p], "TIME_BASED")
                /\ (~ HasType(triggers[p], "PRICE_DIP")
                      /\ ~ HasType(triggers[p], "VOLATILITY_SPIKE")) =>
                      /\ triggers[p] = <<>>
                      /\ state[p] = DefaultState

(* On the second day a run without price or volatility condition has left  *)
(* the record at the default state                                         *)
C20_Witness ==
    \E p \in Procs :
        /\ pc[p] = "done"
        /\ today = 2
        /\ triggers[p] = <<>>
        /\ market_data[p].sma_20 = <<400>>
        /\ market_data[p].nifty_close = 391
        /\ file = Written(DefaultState)

====
